---- MODULE Spec2Model ----
(***************************************************************************)
(* A model of src/8Puzzle.py: the Node and Puzzle classes and the best-    *)
(* first search Puzzle.solve, one action per loop iteration, driven by a   *)
(* caller that constructs Puzzle objects and calls solve on them.          *)
(*                                                                         *)
(* Python indexes from 0.  Boards keep Python's indices: a board is a      *)
(* function over 0..2 of functions over 0..2.  A position (row, column) is *)
(* the tuple <<row, column>>, so Python's position[0] is p[1] here and     *)
(* position[1] is p[2].  Lists are sequences; list index k is k + 1 here.  *)
(* A Node object is a record on the heap, addressed by its index in heap,  *)
(* so two references to one object are one index (Python's references).    *)
(***************************************************************************)
EXTENDS Integers, Sequences, FiniteSets, TLC

(***************************************************************************)
(* Bounds of the model.                                                    *)
(***************************************************************************)
\* initial boards are drawn from the boards at most MaxDist moves from the goal
MaxDist == 5
\* maxIterations is drawn from 0..SmallBudget and LargeBudget
SmallBudget == 2
LargeBudget == 64
\* how many times the caller calls solve again on a Puzzle that has already run
MaxReuse == 1

(***************************************************************************)
(* Numbers.  Python mixes ints and floats (the Euclidian heuristic adds    *)
(* math.sqrt values).  Every number of the model is a binary fixed-point   *)
(* number with 52 fraction bits, held in three limbs:                      *)
(*      value = whole + fhi * 2^-26 + flo * 2^-52.                         *)
(* Every double the program computes is 0 or at least 1, so it is a        *)
(* multiple of 2^-52 and is held exactly.  Python's + on two floats is the *)
(* exact sum rounded to 53 significant bits, ties to even (IEEE 754); on   *)
(* ints it is exact, and an int below 2^53 rounds to itself.               *)
(***************************************************************************)
Limb == 2^26

Num(w, h, l) == [whole |-> w, fhi |-> h, flo |-> l]

IntNum(n) == Num(n, 0, 0)

Zero == IntNum(0)

\* Python's < on numbers
Less(x, y) ==
    \/ x.whole < y.whole
    \/ x.whole = y.whole /\ x.fhi < y.fhi
    \/ x.whole = y.whole /\ x.fhi = y.fhi /\ x.flo < y.flo

\* the exact sum of two numbers
ExactSum(x, y) ==
    LET l == x.flo + y.flo
        h == x.fhi + y.fhi + (l \div Limb)
    IN  Num(x.whole + y.whole + (h \div Limb), h % Limb, l % Limb)

\* the exponent of a number that is at least 1: the e with 2^e <= x < 2^(e+1)
RECURSIVE Exponent(_)
Exponent(w) == IF w <= 1 THEN 0 ELSE 1 + Exponent(w \div 2)

\* x rounded to 53 significant bits, ties to even: a number in [2^e, 2^(e+1))
\* keeps 52 - e fraction bits, so the low e bits of flo are rounded away
RoundDouble(x) ==
    LET e    == Exponent(x.whole)
        ulp  == 2^e
        r    == x.flo % ulp
        down == Num(x.whole, x.fhi, x.flo - r)
        odd  == ((x.flo \div ulp) % 2) = 1
        up   == ExactSum(down, Num(0, 0, ulp))
    IN  IF x.flo = 0 \/ r = 0 THEN x
        ELSE IF 2 * r > ulp \/ (2 * r = ulp /\ odd) THEN up
        ELSE down

\* Python's x + y
Plus(x, y) == RoundDouble(ExactSum(x, y))

\* math.sqrt(math.pow(dr, 2) + math.pow(dc, 2)) for dr, dc in -2..2: the squares
\* and their sum are exact, and math.sqrt returns the nearest double:
\* sqrt(2) = 0x1.6a09e667f3bcdp+0, sqrt(5) = 0x1.1e3779b97f4a8p+1,
\* sqrt(8) = 0x1.6a09e667f3bcdp+1
Sqrt(n) ==
    CASE n = 0 -> Num(0, 0, 0)
      [] n = 1 -> Num(1, 0, 0)
      [] n = 2 -> Num(1, 27797401, 41892813)
      [] n = 4 -> Num(2, 0, 0)
      [] n = 5 -> Num(2, 15842253, 53471568)
      [] n = 8 -> Num(2, 55594803, 16676762)

Abs(n) == IF n < 0 THEN -n ELSE n

(***************************************************************************)
(* Boards.                                                                 *)
(***************************************************************************)
\* a Python list of three lists of three, from a TLA+ tuple of tuples
Grid(rows) == [row \in 0..2 |-> [column \in 0..2 |-> rows[row + 1][column + 1]]]

\* Python's None
None == 0

\* Puzzle.expectedResult
expectedResult == Grid(<< <<1, 2, 3>>, <<4, 5, 6>>, <<7, 8, 0>> >>)

\* the script's testData
testData == Grid(<< <<5, 8, 1>>, <<2, 3, 7>>, <<4, 6, 0>> >>)

(***************************************************************************)
(* class Node.  A node is the record of its attributes; parent is the heap *)
(* index of the parent Node, or None.                                      *)
(***************************************************************************)
\* Node.__init__
Node(data, parent, cost, heuristic) ==
    [data |-> data, parent |-> parent, cost |-> cost, heuristic |-> heuristic,
     g |-> Plus(IntNum(cost), heuristic)]

\* the loops of findPosition from cell k on, the cells counted along the rows
RECURSIVE scanFrom(_, _, _)
scanFrom(data, number, k) ==
    IF k > 8 THEN None
    ELSE IF data[k \div 3][k % 3] = number THEN <<k \div 3, k % 3>>
    ELSE scanFrom(data, number, k + 1)

\* Node.findPosition: the first cell, rows first, that holds number; None when
\* no cell holds it
findPosition(node, number) == scanFrom(node.data, number, 0)

\* findAvailableMoves as a bug would have it: up, down, left, right
findAvailableMovesUpDownLeftRight(node) ==
    LET p      == findPosition(node, 0)
        row    == p[1]
        column == p[2]
    IN  (IF row > 0 /\ row <= 2 THEN << <<row - 1, column>> >> ELSE << >>)
        \o (IF row >= 0 /\ row < 2 THEN << <<row + 1, column>> >> ELSE << >>)
        \o (IF column > 0 /\ column <= 2 THEN << <<row, column - 1>> >> ELSE << >>)
        \o (IF column >= 0 /\ column < 2 THEN << <<row, column + 1>> >> ELSE << >>)

\* findAvailableMoves as a bug would have it: no move down from the top row
findAvailableMovesNotDownFromTop(node) ==
    LET p      == findPosition(node, 0)
        row    == p[1]
        column == p[2]
    IN  (IF row > 0 /\ row <= 2 THEN << <<row - 1, column>> >> ELSE << >>)
        \o (IF column > 0 /\ column <= 2 THEN << <<row, column - 1>> >> ELSE << >>)
        \o (IF row > 0 /\ row < 2 THEN << <<row + 1, column>> >> ELSE << >>)
        \o (IF column >= 0 /\ column < 2 THEN << <<row, column + 1>> >> ELSE << >>)

\* Node.findAvailableMoves
findAvailableMoves(node) ==
    LET p      == findPosition(node, 0)
        row    == p[1]
        column == p[2]
    IN  (IF row > 0 /\ row <= 2 THEN << <<row - 1, column>> >> ELSE << >>)
        \o (IF column > 0 /\ column <= 2 THEN << <<row, column - 1>> >> ELSE << >>)
        \o (IF row >= 0 /\ row < 2 THEN << <<row + 1, column>> >> ELSE << >>)
        \o (IF column >= 0 /\ column < 2 THEN << <<row, column + 1>> >> ELSE << >>)

(***************************************************************************)
(* generateChildren writes into lists (line 94), and a Python list is an   *)
(* object that every holder of a reference to it sees change.  Within one  *)
(* call of generateChildren the row lists in existence are the sequence    *)
(* lists, a row list is addressed by its index in it, and an outer list    *)
(* (a board object) is the function from 0..2 to the indices of its rows.  *)
(* The rows of self.data are the lists 1, 2 and 3.                         *)
(***************************************************************************)
\* self.data, as an outer list
selfData == [row \in 0..2 |-> row + 1]

\* the numbers a board object holds
contents(lists, data) ==
    [row \in 0..2 |-> [column \in 0..2 |-> lists[data[row]][column]]]

\* copyNode as a bug would have it: a new outer list of the same rows
copyNodeOfSameRows(lists, data) == [lists |-> lists, copiedNode |-> data]

\* Node.copyNode: a new outer list of three new rows holding the same numbers
copyNode(lists, data) ==
    [lists      |-> lists \o [k \in 1..3 |->
                                 [column \in 0..2 |-> lists[data[k - 1]][column]]],
     copiedNode |-> [row \in 0..2 |-> Len(lists) + row + 1]]

\* childOf as a bug would have it: the child given the parent's parent
childOfParentsParent(done, node, self, move) ==
    LET p          == scanFrom(contents(done.lists, selfData), 0, 0)
        row        == p[1]
        column     == p[2]
        copied     == copyNode(done.lists, selfData)
        copiedNode == copied.copiedNode
        blank      == copied.lists[selfData[row]][column]
        tile       == copied.lists[selfData[move[1]]][move[2]]
        first      == [copied.lists EXCEPT ![copiedNode[move[1]]][move[2]] = blank]
        second     == [first EXCEPT ![copiedNode[row]][column] = tile]
    IN  [lists    |-> second,
         children |-> Append(done.children,
                             [data |-> copiedNode, parent |-> node.parent,
                              cost |-> node.cost + 1])]

\* childOf as a bug would have it: the second target of line 94 not written
childOfHalfExchanged(done, node, self, move) ==
    LET p          == scanFrom(contents(done.lists, selfData), 0, 0)
        row        == p[1]
        column     == p[2]
        copied     == copyNode(done.lists, selfData)
        copiedNode == copied.copiedNode
        blank      == copied.lists[selfData[row]][column]
        first      == [copied.lists EXCEPT ![copiedNode[move[1]]][move[2]] = blank]
    IN  [lists    |-> first,
         children |-> Append(done.children,
                             [data |-> copiedNode, parent |-> self,
                              cost |-> node.cost + 1])]

\* childOf as a bug would have it: the child keeps the parent's cost
childOfSameCost(done, node, self, move) ==
    LET p          == scanFrom(contents(done.lists, selfData), 0, 0)
        row        == p[1]
        column     == p[2]
        copied     == copyNode(done.lists, selfData)
        copiedNode == copied.copiedNode
        blank      == copied.lists[selfData[row]][column]
        tile       == copied.lists[selfData[move[1]]][move[2]]
        first      == [copied.lists EXCEPT ![copiedNode[move[1]]][move[2]] = blank]
        second     == [first EXCEPT ![copiedNode[row]][column] = tile]
    IN  [lists    |-> second,
         children |-> Append(done.children,
                             [data |-> copiedNode, parent |-> self,
                              cost |-> node.cost])]

\* the body of generateChildren's loop for one move (lines 89-98).  done holds
\* the lists and the children made so far; self is the heap index of node.
\* The right-hand side of line 94 is read from self.data before either target
\* is written, and the targets are written from left to right
childOf(done, node, self, move) ==
    LET p          == scanFrom(contents(done.lists, selfData), 0, 0)
        row        == p[1]
        column     == p[2]
        copied     == copyNode(done.lists, selfData)
        copiedNode == copied.copiedNode
        blank      == copied.lists[selfData[row]][column]
        tile       == copied.lists[selfData[move[1]]][move[2]]
        first      == [copied.lists EXCEPT ![copiedNode[move[1]]][move[2]] = blank]
        second     == [first EXCEPT ![copiedNode[row]][column] = tile]
    IN  [lists    |-> second,
         children |-> Append(done.children,
                             [data |-> copiedNode, parent |-> self,
                              cost |-> node.cost + 1])]

\* the loop of generateChildren from the k-th move on
RECURSIVE childrenFrom(_, _, _, _, _)
childrenFrom(done, node, self, availableMoves, k) ==
    IF k > Len(availableMoves) THEN done
    ELSE childrenFrom(childOf(done, node, self, availableMoves[k]),
                      node, self, availableMoves, k + 1)

\* Node.generateChildren: the children it returns and the numbers self.data
\* holds when it returns
generateChildren(node, self) ==
    LET start == [lists    |-> << node.data[0], node.data[1], node.data[2] >>,
                  children |-> << >>]
        done  == childrenFrom(start, node, self, findAvailableMoves(node), 1)
    IN  [data     |-> contents(done.lists, selfData),
         children |-> [k \in 1..Len(done.children) |->
                          Node(contents(done.lists, done.children[k].data),
                               done.children[k].parent, done.children[k].cost,
                               Zero)]]

(***************************************************************************)
(* class Puzzle: the heuristics.  Each takes the child node and gives the  *)
(* node as the Python method leaves it: heuristic raised by one term per   *)
(* number 0..8, in that order, and g set to cost + heuristic.              *)
(***************************************************************************)
\* Puzzle.finalNode
finalNode == Node(expectedResult, None, 0, Zero)

\* heuristic += terms[1]; ...; heuristic += terms[9], from the k-th term on
RECURSIVE addTerms(_, _, _)
addTerms(heuristic, terms, k) ==
    IF k > Len(terms) THEN heuristic
    ELSE addTerms(Plus(heuristic, terms[k]), terms, k + 1)

\* the node after "heuristic += term" for each number and the closing
\* "childNode.g = childNode.cost + childNode.heuristic"
scored(childNode, terms) ==
    LET heuristic == addTerms(childNode.heuristic, terms, 1)
    IN  [childNode EXCEPT !.heuristic = heuristic,
                          !.g = Plus(IntNum(childNode.cost), heuristic)]

\* simpleTerm as a bug would have it: the comparison inverted
simpleTermInverted(childNode, i) ==
    LET position1 == findPosition(childNode, i)
        position2 == findPosition(finalNode, i)
    IN  IF position1 = position2 THEN IntNum(1) ELSE Zero

\* the term of number i in simpleHeuristic
simpleTerm(childNode, i) ==
    LET position1 == findPosition(childNode, i)
        position2 == findPosition(finalNode, i)
    IN  IF position1 # position2 THEN IntNum(1) ELSE Zero

\* Puzzle.simpleHeuristic
simpleHeuristic(childNode) ==
    scored(childNode, [k \in 1..9 |-> simpleTerm(childNode, k - 1)])

\* the term of number i in manhattanHeuristic
manhattanDistance(childNode, i) ==
    LET position1 == findPosition(childNode, i)
        position2 == findPosition(finalNode, i)
    IN  Abs(position1[1] - position2[1]) + Abs(position1[2] - position2[2])

\* Puzzle.manhattanHeuristic
manhattanHeuristic(childNode) ==
    scored(childNode, [k \in 1..9 |-> IntNum(manhattanDistance(childNode, k - 1))])

\* the term of number i in manhattanEnhancedHeuristic.  The Python code reuses
\* position2, i2 and i3: position2 starts as the goal position of i, becomes
\* the child's position of i + 1 when i + 1 is in 1..8, and then the child's
\* position of i + 3 when i + 3 is in 1..8; the checks for i - 1 and i - 3 read
\* whatever position2 holds by then.  pA..pC are its successive values and
\* mA..mD the successive values of manhattanDistance.
enhancedDistance(childNode, i) ==
    LET md        == 4
        position1 == findPosition(childNode, i)
        p0        == findPosition(finalNode, i)
        m0        == Abs(position1[1] - p0[1]) + Abs(position1[2] - p0[2])
        \* i2 = i + 1
        inA       == i + 1 >= 1 /\ i + 1 <= 8
        pA        == IF inA THEN findPosition(childNode, i + 1) ELSE p0
        mA        == IF /\ inA
                        /\ position1[2] > 0 /\ pA[2] < 2
                        /\ expectedResult[position1[1]][position1[2] - 1] = i
                        /\ expectedResult[pA[1]][pA[2] + 1] = i + 1
                     THEN md ELSE m0
        \* i3 = i - 1, with i2 still i + 1
        inB       == i - 1 >= 1 /\ i - 1 <= 8
        p3B       == findPosition(childNode, i - 1)
        mB        == IF /\ inB
                        /\ pA[2] > 0 /\ p3B[2] < 2
                        /\ expectedResult[pA[1]][pA[2] - 1] = i + 1
                        /\ expectedResult[p3B[1]][p3B[2] + 1] = i - 1
                     THEN md ELSE mA
        \* i2 = i + 3
        inC       == i + 3 >= 1 /\ i + 3 <= 8
        pC        == IF inC THEN findPosition(childNode, i + 3) ELSE pA
        mC        == IF /\ inC
                        /\ position1[1] > 0 /\ pC[1] < 2
                        /\ expectedResult[position1[1] - 1][position1[2]] = i
                        /\ expectedResult[pC[1] + 1][pC[2]] = i + 3
                     THEN md ELSE mB
        \* i3 = i - 3, with i2 still i + 3
        inD       == i - 3 >= 1 /\ i - 3 <= 8
        p3D       == findPosition(childNode, i - 3)
        mD        == IF /\ inD
                        /\ pC[1] > 0 /\ p3D[1] < 2
                        /\ expectedResult[pC[1] - 1][pC[2]] = i + 3
                        /\ expectedResult[p3D[1] + 1][p3D[2]] = i - 3
                     THEN md ELSE mC
    IN  mD

\* Puzzle.manhattanEnhancedHeuristic
manhattanEnhancedHeuristic(childNode) ==
    scored(childNode, [k \in 1..9 |-> IntNum(enhancedDistance(childNode, k - 1))])

\* the term of number i in euclidianHeuristic
euclidianDistance(childNode, i) ==
    LET position1 == findPosition(childNode, i)
        position2 == findPosition(finalNode, i)
        dr        == position1[1] - position2[1]
        dc        == position1[2] - position2[2]
    IN  Sqrt(dr * dr + dc * dc)

\* Puzzle.euclidianHeuristic
euclidianHeuristic(childNode) ==
    scored(childNode, [k \in 1..9 |-> euclidianDistance(childNode, k - 1)])

\* uniformCost as a bug would have it: the case of "A*" taken
uniformCostWithHeuristic(childNode) == simpleHeuristic(childNode)

\* uniformCost as a bug would have it: the sign of the key wrong
uniformCostNegated(childNode) == [childNode EXCEPT !.g = IntNum(0 - childNode.cost)]

\* "UC": child.g = child.cost
uniformCost(childNode) == [childNode EXCEPT !.g = IntNum(childNode.cost)]

\* the method tokens solve recognises, and one it does not
Recognized == {"UC", "A*", "A* M", "A* EM", "A* E"}
Methods == Recognized \cup {"XYZ"}

\* the order in which the script's "all" runs the methods (lines 397-411)
allMethods == <<"UC", "A*", "A* M", "A* EM", "A* E">>

\* the match statement of solve for a recognised method
applyMethod(method, child) ==
    CASE method = "UC"    -> uniformCost(child)
      [] method = "A*"    -> simpleHeuristic(child)
      [] method = "A* M"  -> manhattanHeuristic(child)
      [] method = "A* EM" -> manhattanEnhancedHeuristic(child)
      [] method = "A* E"  -> euclidianHeuristic(child)


(***************************************************************************)
(* The inputs.  The boards at most d moves from the goal, by breadth-first *)
(* search backwards from the goal (every move has an inverse).             *)
(***************************************************************************)
\* the boards one move away from board b
Neighbours(b) ==
    LET kids == generateChildren(Node(b, None, 0, Zero), None).children
    IN  {kids[k].data : k \in 1..Len(kids)}

RECURSIVE Within(_)
Within(d) ==
    IF d = 0 THEN {expectedResult}
    ELSE LET inner == Within(d - 1)
         IN  inner \cup UNION {Neighbours(b) : b \in inner}

NearBoards == Within(MaxDist)

\* the length of a shortest sequence of moves from each near board to the goal
Distance == [b \in NearBoards |->
                CHOOSE d \in 0..MaxDist :
                    /\ b \in Within(d)
                    /\ d > 0 => b \notin Within(d - 1)]

\* a board from which the goal cannot be reached (the goal with 7 and 8 exchanged)
unsolvable == Grid(<< <<1, 2, 3>>, <<4, 5, 6>>, <<8, 7, 0>> >>)

\* a board seven moves from the goal on which "A* EM" makes, in its 18th
\* iteration, a child of cost 4 whose board an open node of cost 8 holds
detour == Grid(<< <<1, 2, 3>>, <<5, 6, 8>>, <<4, 0, 7>> >>)

\* the boards the caller passes to Puzzle
Boards == NearBoards \cup {testData, unsolvable, detour}

\* the values the caller passes as maxIterations
Budgets == (0..SmallBudget) \cup {LargeBudget}

(***************************************************************************)
(* The state.                                                              *)
(***************************************************************************)
VARIABLES
    intInputData,   \* the caller's board
    maxIterations,  \* the caller's iteration budget
    heap,           \* the Node objects of the current Puzzle, by index
    open,           \* Puzzle.open: heap indices
    visited,        \* Puzzle.visited: heap indices
    method,         \* solve's argument method ("" before the first call)
    i,              \* the loop variable of solve: the iterations started
    state,          \* where the current solve call is, or how it ended
    result,         \* what solve returned: a heap index or None
    currentNode,    \* solve's currentNode: the last node popped, or None
    children,       \* the last call of generateChildren: the node it was
                    \* called on and what it returned
    log,            \* what the caller has seen of the calls that returned before
    reuse           \* the solve calls made on this Puzzle after its first

vars == <<intInputData, maxIterations, heap, open, visited, method, i, state,
          result, currentNode, children, log, reuse>>

\* Puzzle.initialNode: the first object a Puzzle makes
initialNode == 1

\* how a solve call ends: "Solved" returns a node (lines 247 and 257),
\* "Exhausted" is the loop running out (None), "Rejected" is the match
\* statement's default case (None), "Crashed" is an exception leaving solve
Ended == {"Solved", "Exhausted", "Rejected", "Crashed"}

\* what the caller can see of a finished call: the returned value's cost (None
\* for None) and len(puzzle.visited), as solveAndPrint prints them
outcome ==
    [method |-> method, state |-> state,
     returned |-> IF result = None THEN "None" ELSE "Node",
     cost |-> IF result = None THEN None ELSE heap[result].cost,
     visited |-> Len(visited)]

(***************************************************************************)
(* Puzzle.__init__ and the caller's inputs.                                *)
(***************************************************************************)
Init ==
    /\ intInputData \in Boards
    /\ maxIterations \in Budgets
    /\ heap = << Node(intInputData, None, 0, Zero) >>
    /\ open = << >>
    /\ visited = << >>
    /\ method = ""
    /\ i = 0
    /\ state = "Initialized"
    /\ result = None
    /\ currentNode = None
    /\ children = [self |-> None, returned |-> << >>]
    /\ log = << >>
    /\ reuse = 0

(***************************************************************************)
(* Puzzle.solve.                                                           *)
(***************************************************************************)
\* whether list is in ascending order of g
isSorted(h, list) ==
    \A k \in 1..(Len(list) - 1) : ~Less(h[list[k + 1]].g, h[list[k]].g)

\* insertByG as a bug would have it: the new node put before the nodes of equal g
insertByGBeforeEqual(h, list, n) ==
    LET p == Cardinality({k \in 1..Len(list) : Less(h[list[k]].g, h[n].g)})
    IN  SubSeq(list, 1, p) \o << n >> \o SubSeq(list, p + 1, Len(list))

\* insertByG as a bug would have it: the open list kept in descending order of g
insertByGDescending(h, list, n) ==
    LET p == Cardinality({k \in 1..Len(list) : ~Less(h[list[k]].g, h[n].g)})
    IN  SubSeq(list, 1, p) \o << n >> \o SubSeq(list, p + 1, Len(list))

\* a sorted list with node n put behind the nodes whose g is not greater
insertByG(h, list, n) ==
    LET p == Cardinality({k \in 1..Len(list) : ~Less(h[n].g, h[list[k]].g)})
    IN  SubSeq(list, 1, p) \o << n >> \o SubSeq(list, p + 1, Len(list))

\* self.open.sort(key=lambda n: n.g): list.sort is stable, so the result is
\* the one ascending order of the list that keeps nodes of equal g in their
\* earlier order (insertion sort)
RECURSIVE sortByG(_, _)
sortByG(h, list) ==
    IF Len(list) <= 1 THEN list
    ELSE LET front == SubSeq(list, 1, Len(list) - 1)
         IN  insertByG(h, IF isSorted(h, front) THEN front ELSE sortByG(h, front),
                       list[Len(list)])

\* value in [n.data for n in list]
hasData(h, list, value) == \E k \in 1..Len(list) : h[list[k]].data = value

\* isNew as a bug would have it: a child that is cheaper than the node holding
\* its board is let in
isNewOrCheaper(h, op, vis, child) ==
    \A k \in 1..Len(op \o vis) :
        h[(op \o vis)[k]].data = child.data => child.cost < h[(op \o vis)[k]].cost

\* isNew as a bug would have it: the visited list not looked at
isNewAmongOpen(h, op, vis, child) == ~hasData(h, op, child.data)

\* whether a child is added to the open list (line 262)
isNew(h, op, vis, child) ==
    ~hasData(h, op, child.data) /\ ~hasData(h, vis, child.data)

\* F(v), with v computed once however often F reads it
once(F(_), v) == CHOOSE r \in {F(x) : x \in {v}} : TRUE

\* admit as a bug would have it: the child put on the open list as it was made
RECURSIVE admitUnscored(_, _, _, _, _, _)
admitUnscored(m, h, op, vis, kids, k) ==
    IF k > Len(kids) THEN [heap |-> h, open |-> op, rejected |-> FALSE]
    ELSE IF ~isNew(h, op, vis, kids[k]) THEN admitUnscored(m, h, op, vis, kids, k + 1)
    ELSE LET n == Len(h) + 1
         IN  IF m \in Recognized
             THEN admitUnscored(m, Append(h, kids[k]),
                                sortByG(Append(h, kids[k]), Append(op, n)),
                                vis, kids, k + 1)
             ELSE [heap |-> Append(h, kids[k]), open |-> Append(op, n),
                   rejected |-> TRUE]

\* the inner loop of solve from the k-th child on: the heap and the open list
\* it leaves, and whether it reached the default case of the match statement
RECURSIVE admit(_, _, _, _, _, _)
admit(m, h, op, vis, kids, k) ==
    IF k > Len(kids) THEN [heap |-> h, open |-> op, rejected |-> FALSE]
    ELSE IF ~isNew(h, op, vis, kids[k]) THEN admit(m, h, op, vis, kids, k + 1)
    ELSE LET n == Len(h) + 1
         IN  IF m \in Recognized
             THEN LET rest(child) ==
                          admit(m, Append(h, child),
                                sortByG(Append(h, child), Append(op, n)),
                                vis, kids, k + 1)
                  IN  once(rest, applyMethod(m, kids[k]))
             ELSE [heap |-> Append(h, kids[k]), open |-> Append(op, n),
                   rejected |-> TRUE]

\* inRange as a bug would have it: one iteration too many
inRangeInclusive(k, limit) == k <= limit

\* "for i in range(maxIterations)": whether the loop has an iteration left
inRange(k, limit) == k < limit

\* enter as a bug would have it: the initial node put on the visited list too
enterVisited(m) ==
    /\ method' = m
    /\ open' = Append(open, initialNode)
    /\ visited' = Append(visited, initialNode)
    /\ i' = 0
    /\ IF heap[initialNode].data = expectedResult
       THEN state' = "Solved" /\ result' = initialNode
       ELSE state' = "Searching" /\ result' = None
    /\ UNCHANGED <<intInputData, maxIterations, heap, currentNode, children>>

\* enter as a bug would have it: the test of the initial node left out
enterWithoutGoalTest(m) ==
    /\ method' = m
    /\ open' = Append(open, initialNode)
    /\ i' = 0
    /\ state' = "Searching"
    /\ result' = None
    /\ UNCHANGED <<intInputData, maxIterations, heap, visited, currentNode, children>>

\* lines 242-247: solve is entered with method m
enter(m) ==
    /\ method' = m
    /\ open' = Append(open, initialNode)
    /\ i' = 0
    /\ IF heap[initialNode].data = expectedResult
       THEN state' = "Solved" /\ result' = initialNode
       ELSE state' = "Searching" /\ result' = None
    /\ UNCHANGED <<intInputData, maxIterations, heap, visited, currentNode, children>>

\* the first solve call on a new Puzzle (line 305).  The script calls
\* solveAndPrint once with the method the user typed, or, for "all", once for
\* each method of allMethods in turn
Solve(m) ==
    /\ state = "Initialized"
    /\ log # << >> => m = allMethods[Len(log) + 1]
    /\ enter(m)
    /\ UNCHANGED <<log, reuse>>

\* one iteration of the loop of solve (lines 250-282)
Iterate ==
    /\ state = "Searching"
    /\ inRange(i, maxIterations)
    /\ i' = i + 1
    /\ IF open = << >>
       THEN \* self.open.pop(0) raises IndexError
            /\ state' = "Crashed"
            /\ result' = None
            /\ UNCHANGED <<heap, open, visited, currentNode, children>>
       ELSE LET cur == Head(open)
                vis == Append(visited, cur)
            IN  /\ currentNode' = cur
                /\ visited' = vis
                /\ IF heap[cur].data = expectedResult
                   THEN /\ state' = "Solved"
                        /\ result' = cur
                        /\ open' = Tail(open)
                        /\ UNCHANGED <<heap, children>>
                   ELSE \E made \in {generateChildren(heap[cur], cur)} :
                        \E after \in {admit(method,
                                            [heap EXCEPT ![cur].data = made.data],
                                            Tail(open), vis, made.children, 1)} :
                            /\ children' = [self |-> cur, returned |-> made.children]
                            /\ heap' = after.heap
                            /\ open' = after.open
                            /\ state' = IF after.rejected THEN "Rejected"
                                        ELSE "Searching"
                            /\ result' = None
    /\ UNCHANGED <<intInputData, maxIterations, method, log, reuse>>

\* the loop of solve runs out: solve returns None
Exhaust ==
    /\ state = "Searching"
    /\ ~inRange(i, maxIterations)
    /\ state' = "Exhausted"
    /\ result' = None
    /\ UNCHANGED <<intInputData, maxIterations, heap, open, visited, method, i,
                   currentNode, children, log, reuse>>

(***************************************************************************)
(* The callers.                                                            *)
(***************************************************************************)
\* solveAndPrint's "puzzle = Puzzle(intInputData)" (line 301) for the next
\* method of "all": the call before has returned and printed its outcome
NewPuzzle ==
    /\ state \in Ended \ {"Crashed"}
    /\ reuse = 0
    /\ Len(log) + 1 < Len(allMethods)
    /\ method = allMethods[Len(log) + 1]
    /\ log' = Append(log, outcome)
    /\ heap' = << Node(intInputData, None, 0, Zero) >>
    /\ open' = << >>
    /\ visited' = << >>
    /\ i' = 0
    /\ state' = "Initialized"
    /\ result' = None
    /\ currentNode' = None
    /\ children' = [self |-> None, returned |-> << >>]
    /\ reuse' = 0
    /\ UNCHANGED <<intInputData, maxIterations, method>>

\* a caller of the class calls solve again, with the same arguments, on a
\* Puzzle whose solve has returned
SolveAgain ==
    /\ state \in Ended \ {"Crashed"}
    /\ reuse < MaxReuse
    /\ log' = Append(log, outcome)
    /\ reuse' = reuse + 1
    /\ enter(method)

Next ==
    \/ \E m \in Methods : Solve(m)
    \/ Iterate
    \/ Exhaust
    \/ NewPuzzle

\* the script: every solve call is made on a new Puzzle
Spec == Init /\ [][Next]_vars

NextReuse ==
    \/ Next
    \/ SolveAgain

\* any caller of the class: solve may be called again on the same Puzzle
SpecReuse == Init /\ [][NextReuse]_vars


\* showPathTaken: the nodes it prints, from finalNode along the parent links to
\* the node that has no parent
RECURSIVE showPathTaken(_)
showPathTaken(node) ==
    IF heap[node].parent = None THEN << node >>
    ELSE << node >> \o showPathTaken(heap[node].parent)

(***************************************************************************)
(* The claims.                                                             *)
(***************************************************************************)
\* the cost of the node solve returned
returnedCost == heap[result].cost

\* the board [[1,2,3],[4,0,6],[7,5,8]]
boardC3 == Grid(<< <<1, 2, 3>>, <<4, 0, 6>>, <<7, 5, 8>> >>)

\* C1, as stated: for every board within a small move distance of the goal (here
\* every board of NearBoards, at most MaxDist moves away), a solve that returns
\* a node returns one whose cost is the shortest distance, for all five methods.
C1_MinimalCostNearGoal ==
    (state = "Solved" /\ reuse = 0 /\ intInputData \in NearBoards
        /\ method \in Recognized)
    => returnedCost = Distance[intInputData]

\* C1, amended: for every board at most 4 moves from the goal and each of the
\* five methods, solve with the large budget returns a node, and every node
\* solve returns has the shortest distance as its cost.
C1_MinimalCostWithin4 ==
    (state \in Ended /\ reuse = 0 /\ intInputData \in NearBoards
        /\ method \in Recognized)
    => (Distance[intInputData] <= 4
        => /\ maxIterations = LargeBudget => state = "Solved"
           /\ state = "Solved" => returnedCost = Distance[intInputData])

C1_Witness ==
    /\ state = "Solved" /\ method = "A* EM" /\ reuse = 0
    /\ intInputData \in NearBoards
    /\ Distance[intInputData] = 4
    /\ returnedCost = 4

\* C2: on one board and one budget, when "UC" and another method both return a
\* node, the cost of the node of "UC" is at most the cost of the other's.  The
\* script's "all" runs "UC" first, so log[1] is what "UC" returned.
C2_UniformCostIsLeast ==
    (state = "Solved" /\ reuse = 0 /\ log # << >>)
    => (log[1].method = "UC" /\ log[1].state = "Solved"
        => log[1].cost <= returnedCost)

C2_Witness ==
    /\ state = "Solved" /\ reuse = 0 /\ log # << >>
    /\ log[1].method = "UC" /\ log[1].state = "Solved"
    /\ method = "A* EM"
    /\ log[1].cost < returnedCost

\* C3, as stated: solve on [[1,2,3],[4,0,6],[7,5,8]] with "UC" and a budget
\* large enough returns a node with cost 1.
C3_CostIsOne ==
    (state \in Ended /\ reuse = 0 /\ intInputData = boardC3 /\ method = "UC"
        /\ maxIterations = LargeBudget)
    => (state = "Solved" /\ returnedCost = 1)

\* C3, amended: that call returns a node with cost 2 (the board is two moves
\* from the goal).
C3_CostIsTwo ==
    (state \in Ended /\ reuse = 0 /\ intInputData = boardC3 /\ method = "UC"
        /\ maxIterations = LargeBudget)
    => (state = "Solved" /\ returnedCost = 2)

C3_Witness ==
    /\ state = "Solved" /\ reuse = 0 /\ intInputData = boardC3 /\ method = "UC"
    /\ maxIterations = LargeBudget
    /\ returnedCost = 2

\* C4: when solve ends in the default case of the match statement (an unknown
\* method), what it returns differs from what it returns when the budget runs
\* out, which is None.
C4_RejectedIsNotExhausted ==
    state = "Rejected" => result # None

\* C6: a solve call made with the arguments of the call before it, on the same
\* Puzzle, ends as that call did: the same outcome, the same returned cost and
\* the same number of visited nodes.
C6_SameArgumentsSameOutcome ==
    (state \in Ended /\ reuse > 0) => log[Len(log)] = outcome

\* C7: solve on the goal board, with any method and any budget, returns the
\* root at once: cost 0, no parent, no iteration started and nothing visited.
C7_GoalReturnsRoot ==
    (intInputData = expectedResult /\ reuse = 0 /\ state # "Initialized")
    => /\ state = "Solved"
       /\ result = initialNode
       /\ returnedCost = 0
       /\ heap[result].parent = None
       /\ i = 0
       /\ visited = << >>

C7_Witness ==
    /\ intInputData = expectedResult /\ state = "Solved" /\ reuse = 0
    /\ method = "XYZ" /\ maxIterations = LargeBudget

\* C8: with maxIterations = 0 solve on a board that is not the goal visits
\* nothing and, for every recognised method, returns None by running out of
\* iterations.
C8_ZeroBudgetExhausts ==
    (intInputData # expectedResult /\ maxIterations = 0 /\ reuse = 0
        /\ method \in Recognized)
    => /\ visited = << >>
       /\ state \in Ended => (state = "Exhausted" /\ result = None)

C8_Witness ==
    /\ intInputData # expectedResult /\ maxIterations = 0 /\ reuse = 0
    /\ method = "A* M" /\ state = "Exhausted" /\ visited = << >>

\* C9: generateChildren returns the boards made by exchanging the blank with
\* its neighbour above, to the left, below and to the right, in that order,
\* those inside the board only: 2 for a blank in a corner, 3 on an edge, 4 in
\* the centre, each with the parent's cost plus one, the expanded node as its
\* parent, and a board that differs from the parent's.
C9_Children ==
    children.self # None =>
        LET node    == heap[children.self]
            kids    == children.returned
            blank   == CHOOSE p \in (0..2) \X (0..2) : node.data[p[1]][p[2]] = 0
            around  == << <<blank[1] - 1, blank[2]>>, <<blank[1], blank[2] - 1>>,
                          <<blank[1] + 1, blank[2]>>, <<blank[1], blank[2] + 1>> >>
            inside(t) == t[1] \in 0..2 /\ t[2] \in 0..2
            targets == SelectSeq(around, inside)
            moved(t) == [row \in 0..2 |-> [column \in 0..2 |->
                            IF <<row, column>> = t THEN 0
                            ELSE IF <<row, column>> = blank THEN node.data[t[1]][t[2]]
                            ELSE node.data[row][column]]]
        IN  /\ Len(kids) = Len(targets)
            /\ Len(kids) = (IF blank = <<1, 1>> THEN 4
                            ELSE IF blank[1] # 1 /\ blank[2] # 1 THEN 2
                            ELSE 3)
            /\ \A k \in 1..Len(kids) :
                  /\ kids[k].data = moved(targets[k])
                  /\ kids[k].cost = node.cost + 1
                  /\ kids[k].parent = children.self
                  /\ kids[k].data # node.data

C9_Witness ==
    /\ children.self # None
    /\ heap[children.self].data[1][1] = 0
    /\ Len(children.returned) = 4
    /\ heap[children.self].cost > 0

\* C10: a node that holds the goal board has heuristic 0 and score equal to its
\* cost, whichever heuristic scored it.
C10_GoalScoresZero ==
    \A n \in 1..Len(heap) :
        heap[n].data = expectedResult
        => (heap[n].heuristic = Zero /\ heap[n].g = IntNum(heap[n].cost))

C10_Witness ==
    \E n \in 1..Len(heap) :
        /\ heap[n].data = expectedResult
        /\ n # initialNode
        /\ method = "A* E"
        /\ n \in {open[k] : k \in 1..Len(open)}

\* the nodes of a list of heap indices
nodesOf(list) == {list[k] : k \in 1..Len(list)}

\* C11: a step of a running solve call (an expansion by generateChildren and
\* the admission of the children, or the loop running out) leaves every Node
\* that exists before it with the board it had: the expanded node, its
\* ancestors and every other node of the open and visited lists.  The children
\* made are new nodes, none of which takes the place of an old one.
C11_BoardsKept ==
    [][state = "Searching"
        => /\ Len(heap') >= Len(heap)
           /\ \A n \in 1..Len(heap) : heap'[n].data = heap[n].data
           /\ nodesOf(open') \cup nodesOf(visited') \subseteq 1..Len(heap')]_vars

\* an expansion of a node that has a parent and a grandparent, after which the
\* root still holds the caller's board
C11_Witness ==
    /\ state = "Searching"
    /\ children.self # None
    /\ Len(children.returned) = 4
    /\ heap[children.self].parent # None
    /\ heap[heap[children.self].parent].parent # None
    /\ heap[initialNode].data = intInputData
    /\ Len(open) > 2

\* the boards generateChildren makes from a node that holds board b
boardsFrom(b) ==
    LET back == generateChildren(Node(b, None, 0, Zero), None).children
    IN  {back[j].data : j \in 1..Len(back)}

\* C12: the move of the blank is its own inverse: the board of the node that
\* generateChildren was called on is among the boards generateChildren makes
\* from each child it returned.
C12_MoveIsSelfInverse ==
    children.self # None =>
        \A k \in 1..Len(children.returned) :
            heap[children.self].data \in boardsFrom(children.returned[k].data)

\* a child made by moving the blank up into the centre, from which the third
\* of the four moves (down) gives the parent's board again
C12_Witness ==
    /\ children.self # None
    /\ \E k \in 1..Len(children.returned) :
          LET back == generateChildren(children.returned[k], None).children
          IN  /\ Len(back) = 4
              /\ back[3].data = heap[children.self].data
              /\ children.returned[k].data[1][1] = 0

\* the boards held by the nodes of a list
boardsOf(list) == {heap[list[k]].data : k \in 1..Len(list)}

\* C13: during a solve call on a new Puzzle no two nodes of the open and
\* visited lists taken together hold equal boards: the two lists hold as many
\* different boards as they hold nodes.  So no board of the visited list is in
\* the open list, and no board is in the visited list (expanded) twice.
C13_NoEqualBoards ==
    Cardinality(boardsOf(open \o visited)) = Len(open) + Len(visited)

\* an expansion that made a child whose board a visited node holds and a
\* child whose board an open node made from another parent holds: both were
\* discarded
C13_Witness ==
    /\ state = "Searching"
    /\ children.self # None
    /\ \E k \in 1..Len(children.returned) :
          children.returned[k].data \in boardsOf(visited)
    /\ \E k \in 1..Len(children.returned) : \E n \in nodesOf(open) :
          /\ heap[n].data = children.returned[k].data
          /\ heap[n].parent # children.self

\* C14: when an iteration of a solve call on a new Puzzle starts, the open
\* list is in ascending order of g, and nodes of equal g are in the order in
\* which they were put into the list (the order of their heap indices, a node
\* getting its index when it is admitted); so the first node, the one the
\* iteration removes, has the least g of the list and is the earliest of those.
C14_OpenIsOrdered ==
    state = "Searching" =>
        /\ \A k \in 1..(Len(open) - 1) :
              \/ Less(heap[open[k]].g, heap[open[k + 1]].g)
              \/ heap[open[k]].g = heap[open[k + 1]].g /\ open[k] < open[k + 1]
        /\ \A k \in 2..Len(open) :
              \/ Less(heap[open[1]].g, heap[open[k]].g)
              \/ heap[open[1]].g = heap[open[k]].g /\ open[1] < open[k]

\* an open list with neighbours of equal g and neighbours of different g, in
\* which a node made later stands before a node made earlier
C14_Witness ==
    /\ state = "Searching"
    /\ method = "A* M"
    /\ inRange(i, maxIterations)
    /\ \E k \in 1..(Len(open) - 1) : heap[open[k]].g = heap[open[k + 1]].g
    /\ \E k \in 1..(Len(open) - 1) : Less(heap[open[k]].g, heap[open[k + 1]].g)
    /\ \E k \in 1..(Len(open) - 1) : open[k] > open[k + 1]

\* the node n of the heap as the heuristic selected by method leaves a node
\* made with its board, parent and cost
scoredAfresh(n) ==
    applyMethod(method, Node(heap[n].data, heap[n].parent, heap[n].cost, Zero))

\* C15, as stated: under a recognised method every node of the open list, the
\* root included, has the heuristic that the selected method gives its board (0
\* for "UC") and g = cost + heuristic.
C15_EveryOpenNodeScored ==
    (method \in Recognized /\ reuse = 0) =>
        \A n \in nodesOf(open) :
            /\ heap[n].heuristic = scoredAfresh(n).heuristic
            /\ heap[n].g = Plus(IntNum(heap[n].cost), heap[n].heuristic)

\* C15, amended: that holds of every node of the open list other than the root
\* (a second scoring would add the terms to the heuristic again); the root is
\* never scored and has heuristic 0 and g 0 under every method.
C15_EveryChildScored ==
    (method \in Recognized /\ reuse = 0) =>
        /\ \A n \in nodesOf(open) \ {initialNode} :
              /\ heap[n].heuristic = scoredAfresh(n).heuristic
              /\ heap[n].g = Plus(IntNum(heap[n].cost), heap[n].heuristic)
        /\ heap[initialNode].heuristic = Zero
        /\ heap[initialNode].g = Zero

\* an open list of children scored by the Euclidian heuristic, one of them with
\* a heuristic that is not a whole number
C15_Witness ==
    /\ method = "A* E" /\ reuse = 0 /\ state = "Searching"
    /\ Len(open) > 3
    /\ \E n \in nodesOf(open) : heap[n].heuristic.fhi # 0
    /\ scoredAfresh(initialNode).heuristic # Zero

\* C16: a step of a running solve call changes no attribute (board, parent,
\* cost, heuristic, g) of a Node that exists before it, and makes no new Node
\* for a child whose board a node of the open or visited list already holds,
\* whatever the costs of the two.
C16_NoReopening ==
    [][state = "Searching"
        => /\ \A n \in 1..Len(heap) : heap'[n] = heap[n]
           /\ \A k \in 1..Len(children'.returned) :
                 children'.returned[k].data \in boardsOf(open \o visited)
                 => \A m \in (Len(heap) + 1)..Len(heap') :
                       heap'[m].data # children'.returned[k].data]_vars

\* an expansion that made a child cheaper than the node that holds its board:
\* the child was discarded and the node kept its cost
C16_Witness ==
    /\ children.self # None
    /\ \E k \in 1..Len(children.returned) : \E n \in nodesOf(open \o visited) :
          /\ heap[n].data = children.returned[k].data
          /\ children.returned[k].cost < heap[n].cost

\* whether board b is board a after one legal move of the blank: they differ
\* in two cells that are neighbours in a row or a column, a holds the blank
\* in one of them, and b holds the two numbers exchanged
oneMove(a, b) ==
    LET cells   == (0..2) \X (0..2)
        changed == {c \in cells : a[c[1]][c[2]] # b[c[1]][c[2]]}
    IN  /\ Cardinality(changed) = 2
        /\ \E c \in changed : \E d \in changed :
              /\ a[c[1]][c[2]] = 0
              /\ b[c[1]][c[2]] = a[d[1]][d[2]]
              /\ b[d[1]][d[2]] = 0
              /\ Abs(c[1] - d[1]) + Abs(c[2] - d[2]) = 1

\* whether the parent links of node n lead, in as many steps as its cost, to
\* the root, which has no parent and holds the caller's board, each node on
\* the way holding its parent's board after one legal move
chainToRoot(n) ==
    LET path == showPathTaken(n)
    IN  /\ Len(path) = heap[n].cost + 1
        /\ path[Len(path)] = initialNode
        /\ heap[initialNode].parent = None
        /\ heap[initialNode].data = intInputData
        /\ \A k \in 1..(Len(path) - 1) :
              oneMove(heap[path[k + 1]].data, heap[path[k]].data)

\* C17: a node that solve returns holds the goal board, and the parent links
\* of it, and of every node of the open and visited lists, lead to the root in
\* exactly cost steps of one legal move each.
C17_ChainsLeadToRoot ==
    /\ state = "Solved" => (heap[result].data = expectedResult /\ chainToRoot(result))
    /\ \A n \in nodesOf(open \o visited) : chainToRoot(n)

\* "A* EM" returns a node seven links from the root on a board five moves from
\* the goal
C17_Witness ==
    /\ state = "Solved" /\ method = "A* EM" /\ reuse = 0
    /\ intInputData \in NearBoards
    /\ Distance[intInputData] = 5
    /\ Len(showPathTaken(result)) = 8
    /\ chainToRoot(result)

\* C18: in a solve call on a new Puzzle the visited list only grows, by the one
\* node each iteration removes from the open list, so it holds as many nodes as
\* iterations were started, at most maxIterations, in every state and so when
\* the call has ended.
C18_VisitedCountsIterations ==
    /\ [](reuse = 0 => (Len(visited) = i /\ i <= maxIterations))
    /\ [][state = "Searching"
            => \/ i' = i /\ visited' = visited
               \/ i' = i + 1 /\ visited' = Append(visited, Head(open))]_vars

\* a call that went through the whole of the large budget without reaching the
\* goal, with as many visited nodes
C18_Witness ==
    /\ reuse = 0 /\ state = "Exhausted" /\ method = "UC"
    /\ maxIterations = LargeBudget
    /\ i = maxIterations
    /\ Len(visited) = i

\* C19: the board of every node of the open and visited lists holds each of
\* the numbers 0..8 in exactly one of its nine cells (the nine cells hold the
\* nine numbers), and findPosition finds a position for each of them.
C19_BoardsArePermutations ==
    \A n \in nodesOf(open \o visited) :
        /\ {heap[n].data[c[1]][c[2]] : c \in (0..2) \X (0..2)} = 0..8
        /\ \A v \in 0..8 : findPosition(heap[n], v) \in (0..2) \X (0..2)

\* a search four moves deep whose visited list holds a node with the blank in
\* the top left corner
C19_Witness ==
    /\ state = "Searching"
    /\ Len(open) > 4
    /\ \E n \in nodesOf(visited) :
          /\ heap[n].cost >= 4
          /\ findPosition(heap[n], 0) = <<0, 0>>

\* C20: under "UC", in a solve call on a new Puzzle, the costs of the nodes of
\* the visited list never go down along the list (the order in which the nodes
\* were expanded), and no node of the open list has a cost more than one above
\* the cost of the node expanded last.
C20_UniformCostIsBreadthFirst ==
    (method = "UC" /\ reuse = 0) =>
        /\ \A k \in 1..(Len(visited) - 1) :
              heap[visited[k]].cost <= heap[visited[k + 1]].cost
        /\ visited # << >> =>
              \A n \in nodesOf(open) :
                  heap[n].cost <= heap[visited[Len(visited)]].cost + 1

\* a search under "UC" that has expanded nodes of costs 0 to 3 and has open
\* nodes of the cost of the node expanded last and of one more
C20_Witness ==
    /\ method = "UC" /\ reuse = 0 /\ state = "Searching"
    /\ visited # << >>
    /\ heap[visited[Len(visited)]].cost = 3
    /\ \E n \in nodesOf(open) : heap[n].cost = 3
    /\ \E n \in nodesOf(open) : heap[n].cost = 4

====
